---- MODULE Spec2Model ----
(***************************************************************************)
(* State-machine model of the HackerNews component                         *)
(* (src/src/components/HackerNews.tsx): the four useState fields, the      *)
(* asynchronous fetchStories cycle (index fetch, fan-out of detail         *)
(* fetches, Promise.all fan-in, catch/finally), the mount/autoRefresh      *)
(* effect with its interval, and the three buttons that start a cycle.     *)
(*                                                                         *)
(* One step of the model is one run-to-completion piece of JavaScript:     *)
(* an event handler, an effect, or the continuation that runs when a       *)
(* network promise settles (with the microtask chain it triggers).         *)
(***************************************************************************)
EXTENDS Integers, Sequences, FiniteSets, TLC

\* ------------------------------------------------------------------ bounds
\* Two kinds of run are explored. With no overlap (one fetchStories call in
\* flight at a time) the remote holds identifiers 1..MaxId and the initialLimit
\* prop ranges over 1..MaxLimit. With up to MaxInFlight calls in flight at the
\* same time it holds 1..OverlapMaxId and the prop ranges over 1..OverlapMaxLimit.
MaxId == 3
MaxLimit == 3
MaxInFlight == 2
OverlapMaxId == 2
OverlapMaxLimit == 2
\* The hostnames given to getHostname have 1..MaxLabels labels.
MaxLabels == 4

VARIABLES
    stories,      \* useState<HNStory[]>([])
    loading,      \* useState(true)
    refreshing,   \* useState(false)
    error,        \* useState<string | null>(null)
    initialLimit, \* prop
    autoRefresh,  \* prop
    phase,        \* "created" (before the effect ran) | "mounted" | "unmounted"
    intervals,    \* the number of live setInterval handles
    calls,        \* the fetchStories calls in flight, oldest first
    universe,     \* the remote holds the identifiers 1..universe
    capacity,     \* calls that may be in flight at the same time in this run
    lastEvent,    \* history: what the last step did
    source,       \* history: the index list and the settled detail results of
                  \* the call that wrote stories last
    url,          \* getHostname: its argument
    hostname,     \* getHostname: what it returned
    returned      \* getHostname: TRUE once it has returned

vars == <<stories, loading, refreshing, error, initialLimit, autoRefresh,
          phase, intervals, calls, universe, capacity, lastEvent, source,
          url, hostname, returned>>

\* What no step of the component changes.
fixed == <<initialLimit, universe, capacity, url, hostname, returned>>

\* ------------------------------------------------------------ data values
\* error: string | null
NoError == "null"
ErrMsg == "Failed to fetch Hacker News stories. Please try again later."

\* A detail fetch's JSON value: an item object, or JSON null.
Story(i) == [kind |-> "story", id |-> i]
JsonNull == [kind |-> "null", id |-> 0]
\* A storyPromise that has not settled yet.
Pending == [kind |-> "pending", id |-> 0]

\* The index lists the remote may return: sequences of distinct identifiers.
IndexLists ==
    {s \in UNION {[1..n -> 1..universe] : n \in 0..universe} :
        \A a, b \in DOMAIN s : a # b => s[a] # s[b]}

\* What the index request can come to: fetch() rejects (network error), or it
\* resolves with a response of either HTTP status class whose body is not JSON
\* ("invalid"), is JSON but no array ("object"), or is an array of identifiers.
IndexResponses ==
    [rejects : {TRUE}, httpOk : {FALSE}, json : {"none"}, ids : {<<>>}]
      \cup [rejects : {FALSE}, httpOk : BOOLEAN, json : {"invalid", "object"}, ids : {<<>>}]
      \cup [rejects : {FALSE}, httpOk : BOOLEAN, json : {"array"}, ids : IndexLists]

\* The positions of the calls in flight.
InFlight == DOMAIN calls
\* calls without its c-th call.
Without(c) == [k \in 1..(Len(calls) - 1) |-> IF k < c THEN calls[k] ELSE calls[k + 1]]

\* The history record of a step.
\* repeat: a publish of the very index list and detail results that were
\* published last. stale: a publish by a call that a later-started call had
\* already published ahead of.
Event(kind, origin, isRefresh, cause, httpOk, pendingLeft) ==
    [kind |-> kind, origin |-> origin, isRefresh |-> isRefresh, cause |-> cause,
     httpOk |-> httpOk, pendingLeft |-> pendingLeft, repeat |-> FALSE, stale |-> FALSE]

\* The origin put down when call c ends: "mount" for the call the mount effect made.
EndOrigin(c) == IF calls[c].first THEN "mount" ELSE "-"

\* calls without its c-th call, the calls started before it marked as overtaken.
WithoutOvertaking(c) ==
    [k \in 1..(Len(calls) - 1) |->
        IF k < c THEN [calls[k] EXCEPT !.overtaken = TRUE] ELSE calls[k + 1]]

\* ---------------------------------------------------------- pure helpers
Min(a, b) == IF a <= b THEN a ELSE b

\* A slice that forgets its end index.
SliceWhole(s, n) == s

\* storyIds.slice(0, n), n >= 0
Slice(s, n) == SubSeq(s, 1, Min(n, Len(s)))

\* A filter predicate that lets null through.
TruthyAlways(v) == TRUE

\* Boolean(v) for a detail value: an object is truthy, null is falsy.
Truthy(v) == v.kind = "story"

\* storyResults.filter(Boolean)
FilterBoolean(results) == SelectSeq(results, Truthy)

\* The identifiers of a list of stories, in order.
StoryIds(ss) == [k \in DOMAIN ss |-> ss[k].id]

\* ---------------------------------------------------- fetchStories pieces
\* A start that raises loading whatever isRefresh is.
LoadingAlwaysAtStart(isRefresh) == TRUE
\* A start that leaves the previous error in place.
ErrorKeptAtStart == error

\* if (isRefresh) setRefreshing(true); else setLoading(true);
RefreshingAtStart(isRefresh) == IF isRefresh THEN TRUE ELSE refreshing
LoadingAtStart(isRefresh) == IF isRefresh THEN loading ELSE TRUE
\* setError(null)
ErrorAtStart == NoError
\* A catch block that also empties the list.
StoriesClearedOnCatch == <<>>
\* A catch block that only logs.
ErrorKeptOnCatch == error
\* A finally block that clears refreshing only.
LoadingKeptAtEnd == loading
\* A finally block that clears loading only.
RefreshingKeptAtEnd == refreshing

\* A success path that appends to the list instead of replacing it.
StoriesMergedOnSuccess(results) == stories \o SelectSeq(results, Truthy)

\* catch: setError('Failed to fetch ...'); stories is not written.
ErrorOnCatch == ErrMsg
StoriesOnCatch == stories
\* try, after Promise.all: setStories(storyResults.filter(Boolean)); error is not written.
StoriesOnSuccess(results) == FilterBoolean(results)
ErrorOnSuccess == error
\* finally: setLoading(false); setRefreshing(false);
LoadingAtEnd == FALSE
RefreshingAtEnd == FALSE

\* The storyPromises still unsettled.
PendingIn(results) == {k \in DOMAIN results : results[k] = Pending}

\* A fan-in that resolves as soon as one storyPromise has.
AnyFulfilled(results) == TRUE
\* A fan-in that never resolves.
NeverFulfilled(results) == FALSE

\* Promise.all(storyPromises) resolves: every storyPromise has resolved.
AllFulfilled(results) == PendingIn(results) = {}

\* The synchronous prefix of fetchStories(isRefresh), up to the first await.
FetchStories(isRefresh, origin) ==
    /\ Len(calls) < capacity
    /\ refreshing' = RefreshingAtStart(isRefresh)
    /\ loading' = LoadingAtStart(isRefresh)
    /\ error' = ErrorAtStart
    /\ calls' = Append(calls, [pc |-> "index", isRefresh |-> isRefresh,
                                storyIds |-> <<>>, results |-> <<>>,
                                first |-> (origin = "mount"), overtaken |-> FALSE])
    /\ lastEvent' = Event("start", origin, isRefresh, "-", TRUE, 0)
    /\ UNCHANGED <<stories, source, fixed>>

\* The catch and finally blocks of call c.
CatchFinally(c, cause, httpOk, pendingLeft) ==
    /\ stories' = StoriesOnCatch
    /\ error' = ErrorOnCatch
    /\ loading' = LoadingAtEnd
    /\ refreshing' = RefreshingAtEnd
    /\ calls' = Without(c)
    /\ lastEvent' = Event("failed", EndOrigin(c), calls[c].isRefresh, cause, httpOk,
                          pendingLeft)
    /\ UNCHANGED source

\* A success path that drops the result of a call a later call has overtaken.
PublishLatestOnly(c, storyIds, results, httpOk) ==
    /\ stories' = IF calls[c].overtaken THEN stories ELSE StoriesOnSuccess(results)
    /\ error' = ErrorOnSuccess
    /\ loading' = LoadingAtEnd
    /\ refreshing' = RefreshingAtEnd
    /\ calls' = WithoutOvertaking(c)
    /\ source' = [index |-> storyIds, results |-> results]
    /\ lastEvent' = [Event("published", EndOrigin(c), calls[c].isRefresh, "-", httpOk,
                           Cardinality(PendingIn(results)))
                        EXCEPT !.repeat = (source' = source),
                               !.stale = calls[c].overtaken]

\* The rest of the try block once Promise.all has resolved, then finally.
PublishFinally(c, storyIds, results, httpOk) ==
    /\ stories' = StoriesOnSuccess(results)
    /\ error' = ErrorOnSuccess
    /\ loading' = LoadingAtEnd
    /\ refreshing' = RefreshingAtEnd
    /\ calls' = WithoutOvertaking(c)
    /\ source' = [index |-> storyIds, results |-> results]
    /\ lastEvent' = [Event("published", EndOrigin(c), calls[c].isRefresh, "-", httpOk,
                           Cardinality(PendingIn(results)))
                        EXCEPT !.repeat = (source' = source),
                               !.stale = calls[c].overtaken]

\* ------------------------------------------------------------------- init
Init ==
    /\ stories = <<>>
    /\ loading = TRUE
    /\ refreshing = FALSE
    /\ error = NoError
    /\ \/ capacity = 1 /\ universe = MaxId /\ initialLimit \in 1..MaxLimit
       \/ /\ capacity = MaxInFlight /\ MaxInFlight > 1
          /\ universe = OverlapMaxId /\ initialLimit \in 1..OverlapMaxLimit
    /\ autoRefresh \in BOOLEAN
    /\ phase = "created"
    /\ intervals = 0
    /\ calls = <<>>
    /\ lastEvent = Event("init", "-", FALSE, "-", TRUE, 0)
    /\ source = [index |-> <<>>, results |-> <<>>]
    /\ url = [kind |-> "absent", host |-> <<>>]
    /\ hostname = <<>>
    /\ returned = FALSE

\* ---------------------------------------------------------------- effects
\* An effect that sets the interval whatever autoRefresh is.
IntervalsAlwaysAfterEffect(n, auto) == n + 1

\* if (autoRefresh) { const interval = setInterval(() => fetchStories(true), ...) }
IntervalsAfterEffect(n, auto) == IF auto THEN n + 1 ELSE n
\* An effect that returns no cleanup.
IntervalsKeptAfterCleanup == intervals

\* The cleanup the effect returned, which it does only when it ran with
\* autoRefresh: () => clearInterval(interval)
IntervalsAfterCleanup == IF autoRefresh THEN intervals - 1 ELSE intervals

\* useEffect on mount: fetchStories(); then the interval if autoRefresh.
MountEffect ==
    /\ phase = "created"
    /\ FetchStories(FALSE, "mount")
    /\ intervals' = IntervalsAfterEffect(intervals, autoRefresh)
    /\ phase' = "mounted"
    /\ UNCHANGED autoRefresh

\* The autoRefresh prop changes: the previous effect's cleanup runs, then the
\* effect runs again with the new value.
AutoRefreshChanges ==
    /\ phase = "mounted"
    /\ autoRefresh' = ~autoRefresh
    /\ FetchStories(FALSE, "effect")
    /\ intervals' = IntervalsAfterEffect(IntervalsAfterCleanup, autoRefresh')
    /\ UNCHANGED phase

\* The component is torn down: the effect's cleanup runs. Calls in flight are
\* not cancelled; their continuations still run and still call the setters.
Unmount ==
    /\ phase = "mounted"
    /\ phase' = "unmounted"
    /\ intervals' = IntervalsAfterCleanup
    /\ lastEvent' = Event("unmount", "-", FALSE, "-", TRUE, 0)
    /\ UNCHANGED <<stories, loading, refreshing, error, autoRefresh, calls, source, fixed>>

\* The interval fires: fetchStories(true).
TimerFires ==
    /\ intervals > 0
    /\ FetchStories(TRUE, "timer")
    /\ UNCHANGED <<autoRefresh, phase, intervals>>

\* ---------------------------------------------------------------- buttons
\* Refresh button: disabled={loading || refreshing}
RefreshDisabled == loading \/ refreshing
\* <main>: loading && !refreshing ? spinner : error ? error pane : list
ShowsSpinner == loading /\ ~refreshing
ShowsErrorPane == ~ShowsSpinner /\ error # NoError
ShowsList == ~ShowsSpinner /\ error = NoError

ClickRefresh ==
    /\ phase = "mounted"
    /\ ~RefreshDisabled
    /\ FetchStories(TRUE, "refresh")
    /\ UNCHANGED <<autoRefresh, phase, intervals>>

ClickRetry ==
    /\ phase = "mounted"
    /\ ShowsErrorPane
    /\ FetchStories(FALSE, "retry")
    /\ UNCHANGED <<autoRefresh, phase, intervals>>

ClickMoreStories ==
    /\ phase = "mounted"
    /\ ShowsList
    /\ FetchStories(FALSE, "more")
    /\ UNCHANGED <<autoRefresh, phase, intervals>>

\* ------------------------------------------------------ promise settlements
\* await fetch(topstories) / await response.json() / storyIds.slice(...).map(...)
\* fail: the fetch rejects, the body is no JSON, or it has no slice/map.
IndexFails(c) ==
    /\ c \in InFlight
    /\ calls[c].pc = "index"
    /\ \E r \in IndexResponses :
          /\ r.rejects \/ r.json # "array"
          /\ CatchFinally(c, "index", r.httpOk, 0)
    /\ UNCHANGED <<autoRefresh, phase, intervals, fixed>>

\* The index is an array: the detail fetches of its first initialLimit
\* identifiers are issued. With none to issue Promise.all([]) resolves at once.
IndexArrives(c) ==
    /\ c \in InFlight
    /\ calls[c].pc = "index"
    /\ \E r \in IndexResponses :
          /\ ~r.rejects /\ r.json = "array"
          /\ LET ids == Slice(r.ids, initialLimit)
             IN IF ids = <<>>
                THEN PublishFinally(c, r.ids, <<>>, r.httpOk)
                ELSE /\ calls' = [calls EXCEPT ![c] =
                                    [pc |-> "all", isRefresh |-> calls[c].isRefresh,
                                     storyIds |-> r.ids,
                                     results |-> [k \in 1..Len(ids) |-> Pending],
                                     first |-> calls[c].first,
                                     overtaken |-> calls[c].overtaken]]
                     /\ lastEvent' = Event("index", "-", calls[c].isRefresh, "-",
                                           r.httpOk, 0)
                     /\ UNCHANGED <<stories, loading, refreshing, error, source>>
    /\ UNCHANGED <<autoRefresh, phase, intervals, fixed>>

\* One storyPromise resolves with the item's JSON (an object or null). When it
\* was the last one pending, Promise.all resolves and the call publishes.
DetailResolves(c, k) ==
    /\ c \in InFlight
    /\ calls[c].pc = "all"
    /\ k \in PendingIn(calls[c].results)
    /\ \E v \in {Story(Slice(calls[c].storyIds, initialLimit)[k]), JsonNull} :
          LET results == [calls[c].results EXCEPT ![k] = v]
          IN IF AllFulfilled(results)
             THEN PublishFinally(c, calls[c].storyIds, results, TRUE)
             ELSE /\ calls' = [calls EXCEPT ![c].results = results]
                  /\ lastEvent' = Event("detail", "-", calls[c].isRefresh, "-", TRUE, 0)
                  /\ UNCHANGED <<stories, loading, refreshing, error, source>>
    /\ UNCHANGED <<autoRefresh, phase, intervals, fixed>>

\* One storyPromise rejects (its fetch fails or its body is no JSON):
\* Promise.all rejects at once, whatever is still pending.
DetailRejects(c, k) ==
    /\ c \in InFlight
    /\ calls[c].pc = "all"
    /\ k \in PendingIn(calls[c].results)
    /\ CatchFinally(c, "detail", TRUE, Cardinality(PendingIn(calls[c].results)) - 1)
    /\ UNCHANGED <<autoRefresh, phase, intervals, fixed>>

Next ==
    \/ MountEffect
    \/ ClickRefresh
    \/ ClickRetry
    \/ ClickMoreStories
    \/ TimerFires
    \/ AutoRefreshChanges
    \/ Unmount
    \/ \E c \in InFlight : IndexFails(c)
    \/ \E c \in InFlight : IndexArrives(c)
    \/ \E c \in InFlight : \E k \in DOMAIN calls[c].results : DetailResolves(c, k)
    \/ \E c \in InFlight : \E k \in DOMAIN calls[c].results : DetailRejects(c, k)

Spec == Init /\ [][Next]_vars

\* ------------------------------------------------------------ getHostname
\* Strings are sequences of characters.
Www == <<"w", "w", "w", ".">>
Labels == {<<"w", "w", "w">>, <<"a">>, <<"a", "w", "w", "w">>}

\* labels joined by dots
RECURSIVE Join(_)
Join(ls) ==
    IF Len(ls) = 1 THEN ls[1] ELSE ls[1] \o <<".">> \o Join(Tail(ls))

Hosts == {Join(ls) : ls \in UNION {[1..n -> Labels] : n \in 1..MaxLabels}}

\* The arguments: undefined or '' ("absent"), a string new URL() throws on
\* ("invalid"), or a URL with the given host.
Urls ==
    [kind : {"absent", "invalid"}, host : {<<>>}] \cup [kind : {"url"}, host : Hosts]

\* Where pat occurs in s.
Occurrences(s, pat) ==
    {i \in 1..(Len(s) - Len(pat) + 1) : SubSeq(s, i, i + Len(pat) - 1) = pat}

\* s.replace(pat, rep) with a string pattern: the first occurrence is replaced.
Replace(s, pat, rep) ==
    IF Occurrences(s, pat) = {} THEN s
    ELSE LET i == CHOOSE i \in Occurrences(s, pat) :
                      \A j \in Occurrences(s, pat) : i <= j
         IN SubSeq(s, 1, i - 1) \o rep \o SubSeq(s, i + Len(pat), Len(s))

\* getHostname(url)
GetHostname(u) ==
    IF u.kind = "absent" THEN <<>>
    ELSE IF u.kind = "invalid" THEN <<>>
    ELSE Replace(u.host, Www, <<>>)

InitHostname ==
    /\ stories = <<>>
    /\ loading = TRUE
    /\ refreshing = FALSE
    /\ error = NoError
    /\ capacity = 1 /\ universe = MaxId /\ initialLimit = 1
    /\ autoRefresh = FALSE
    /\ phase = "created"
    /\ intervals = 0
    /\ calls = <<>>
    /\ lastEvent = Event("init", "-", FALSE, "-", TRUE, 0)
    /\ source = [index |-> <<>>, results |-> <<>>]
    /\ url \in Urls
    /\ hostname = <<>>
    /\ returned = FALSE

\* A call of getHostname(url) runs to its return.
CallGetHostname ==
    /\ ~returned
    /\ hostname' = GetHostname(url)
    /\ returned' = TRUE
    /\ UNCHANGED <<stories, loading, refreshing, error, initialLimit, autoRefresh,
                   phase, intervals, calls, universe, capacity, lastEvent, source, url>>

NextHostname == CallGetHostname

SpecHostname == InitHostname /\ [][NextHostname]_vars

\* ------------------------------------------------------------------ claims
\* The first n entries of s.
FirstN(s, n) == [k \in 1..Min(n, Len(s)) |-> s[k]]

\* a is b with some entries left out, the others in b's order.
IsSubseq(a, b) ==
    \E f \in [DOMAIN a -> DOMAIN b] :
        /\ \A i, j \in DOMAIN a : i < j => f[i] < f[j]
        /\ \A i \in DOMAIN a : a[i] = b[f[i]]

\* A step that ended a fetchStories call.
Completed(e) == e.kind \in {"published", "failed"}

\* C1: in every reachable state, whatever load cycles have run and however they
\* overlapped, stories is no longer than initialLimit and its identifiers are an
\* order-preserving subsequence of the first initialLimit identifiers of the
\* index list of one single cycle, the one that wrote stories last (initially
\* stories is empty).
C1_DisplayedWithinOneIndex ==
    /\ Len(stories) <= initialLimit
    /\ IsSubseq(StoryIds(stories), FirstN(source.index, initialLimit))

\* C1 witness: an index list longer than the limit was truncated and one of the
\* retained identifiers was dropped, while another call is in flight.
C1_Witness ==
    /\ Len(source.index) > initialLimit
    /\ initialLimit = 2
    /\ Len(stories) = 1
    /\ Len(calls) = 1

\* C2: right after a successful cycle, stories is exactly the detail records of
\* the first initialLimit index identifiers whose detail result is not null, in
\* index order: the k-th kept identifier's record stands at position k.
C2_PublishedIsNonNullDetailsInOrder ==
    lastEvent.kind = "published" =>
        LET ids == FirstN(source.index, initialLimit)
            res == source.results
            kept == {k \in DOMAIN res : res[k] # JsonNull}
            rank(k) == Cardinality({j \in kept : j <= k})
        IN /\ DOMAIN res = DOMAIN ids
           /\ Len(stories) = Cardinality(kept)
           /\ \A k \in kept : stories[rank(k)] = Story(ids[k])

\* C2 witness: the scenario of three identifiers, limit 3, the middle detail null.
C2_Witness ==
    /\ lastEvent.kind = "published"
    /\ initialLimit = 3
    /\ Len(source.index) = 3
    /\ source.results[2] = JsonNull
    /\ stories = <<Story(source.index[1]), Story(source.index[3])>>

\* C3: the step in which a call's index fetch fails leaves stories as it was
\* and ends with error set; the call's first step, its only other one, leaves
\* stories as it was too.
C3_IndexFailureKeepsStories ==
    [][/\ (lastEvent'.kind = "failed" /\ lastEvent'.cause = "index")
            => (stories' = stories /\ error' # NoError)
       /\ lastEvent'.kind = "start" => stories' = stories]_vars

\* C3 witness: an index fetch has just failed with stories on display.
C3_Witness ==
    /\ lastEvent.kind = "failed"
    /\ lastEvent.cause = "index"
    /\ stories # <<>>
    /\ error = ErrMsg

C5_RefreshKeepsContent ==
    [][/\ (lastEvent'.kind = "start" /\ lastEvent'.origin \in {"timer", "refresh"})
            => lastEvent'.isRefresh
       /\ (lastEvent'.kind = "start" /\ lastEvent'.isRefresh)
            => /\ refreshing'
               /\ loading' = loading
               /\ stories' = stories
               /\ ~ShowsSpinner'
       /\ lastEvent'.kind \in {"index", "detail"} => stories' = stories]_vars

\* C5 witness: a refresh is under way over a list that is still shown.
C5_Witness ==
    /\ lastEvent.kind = "detail"
    /\ Len(calls) = 1
    /\ calls[1].isRefresh
    /\ stories # <<>>
    /\ refreshing /\ ~loading

\* C6 as claimed: loading is false right after a call completes, and once false
\* it is never true again.
C6_LoadingNeverTrueAgain ==
    [][/\ Completed(lastEvent') => ~loading'
       /\ ~loading => ~loading']_vars

\* C6 amended: loading is false right after any call completes, and it becomes
\* true again only at the start of a fetchStories(false) call: Retry, More
\* Stories, or the effect running again on a change of autoRefresh. The start of
\* a fetchStories(true) call never raises it.
C6_LoadingRaisedOnlyByNonRefreshStart ==
    [][/\ Completed(lastEvent') => ~loading'
       /\ (~loading /\ loading')
            => /\ lastEvent'.kind = "start"
               /\ ~lastEvent'.isRefresh
               /\ lastEvent'.origin \in {"retry", "more", "effect"}]_vars

\* C6 witness: Retry has raised loading again after a call had completed.
C6_Witness ==
    /\ lastEvent.kind = "start"
    /\ lastEvent.origin = "retry"
    /\ loading

\* C7: refreshing is false before the effect has run, it is true only while a
\* fetchStories(true) call is in flight, and it is false right after a
\* fetchStories(true) call completes, by success or by failure.
C7_RefreshingOnlyDuringRefresh ==
    /\ phase = "created" => ~refreshing
    /\ refreshing => \E c \in InFlight : calls[c].isRefresh
    /\ (Completed(lastEvent) /\ lastEvent.isRefresh) => ~refreshing

\* C7 witness: a refresh has just failed, and refreshing is down.
C7_Witness ==
    /\ lastEvent.kind = "failed"
    /\ lastEvent.isRefresh
    /\ ~refreshing

\* C8: right after a call completes, by publishing or by failing, loading and
\* refreshing are both false.
C8_FlagsClearedAtEnd ==
    Completed(lastEvent) => (~loading /\ ~refreshing)

\* C8 witness: a call has just published while another is still in flight, and
\* both flags are down.
C8_Witness ==
    /\ lastEvent.kind = "published"
    /\ calls # <<>>
    /\ ~loading /\ ~refreshing

\* C9: a timer-initiated call starts only while the component is mounted with
\* autoRefresh on, and no interval is live once the component is torn down or
\* autoRefresh is off.
C9_NoTimerAfterCancel ==
    [][/\ lastEvent'.origin = "timer" => (phase = "mounted" /\ autoRefresh)
       /\ (phase' = "unmounted" \/ ~autoRefresh') => intervals' = 0]_vars

\* C9 witness: the component, running with autoRefresh, has just been torn down
\* with a refresh call still in flight, and no interval is left.
C9_Witness ==
    /\ lastEvent.kind = "unmount"
    /\ autoRefresh
    /\ intervals = 0
    /\ \E c \in InFlight : calls[c].isRefresh

\* C10: error is null right after any call starts, and error becomes non-null
\* only in a step that ends a call in failure.
C10_ErrorClearedAtStartSetOnFailure ==
    [][/\ lastEvent'.kind = "start" => error' = NoError
       /\ (error' # error /\ error' # NoError) => lastEvent'.kind = "failed"]_vars

\* C10 witness: Retry, offered only with an error on display, has cleared it.
C10_Witness ==
    /\ lastEvent.kind = "start"
    /\ lastEvent.origin = "retry"
    /\ error = NoError

LeadingWwwStripped(u) ==
    IF u.kind # "url" THEN <<>>
    ELSE IF Len(u.host) >= Len(Www) /\ SubSeq(u.host, 1, Len(Www)) = Www
         THEN SubSeq(u.host, Len(Www) + 1, Len(u.host))
         ELSE u.host

\* C12 as claimed: getHostname returns the host with only a leading "www."
\* stripped, any other occurrence of "www." kept, and the empty string for an
\* absent or unparsable argument.
C12_OnlyLeadingWwwStripped ==
    returned => hostname = LeadingWwwStripped(url)

NotNull(v) == v # JsonNull

\* C13: starting a call keeps every call in flight as it is, every call ends by
\* its own publishing or failing step and by nothing else, and a publishing step
\* writes the publisher's own non-null results to stories, also when a call
\* started after it has already published.
C13_OverlappingCallsAllRun ==
    [][/\ lastEvent'.kind = "start"
            => /\ Len(calls') = Len(calls) + 1
               /\ \A k \in DOMAIN calls : calls'[k] = calls[k]
       /\ Completed(lastEvent') => Len(calls') = Len(calls) - 1
       /\ lastEvent'.kind \in {"index", "detail", "unmount"} => Len(calls') = Len(calls)
       /\ lastEvent'.kind = "published"
            => stories' = SelectSeq(source'.results, NotNull)]_vars

\* C13 witness: of two overlapping calls the one started first published last,
\* and its list is the one that stays.
C13_Witness ==
    /\ lastEvent.kind = "published"
    /\ lastEvent.stale
    /\ calls = <<>>
    /\ stories # <<>>
    /\ StoryIds(stories) = FirstN(source.index, initialLimit)

\* C14 as claimed: an index response with a non-success status ends the call in
\* failure with error set, and no detail fetch is issued.
C14_NonSuccessIsFailure ==
    (lastEvent.kind \in {"index", "published", "failed"} /\ ~lastEvent.httpOk)
        => (lastEvent.kind = "failed" /\ error = ErrMsg)

RECURSIVE NonNullInOrder(_)
NonNullInOrder(res) ==
    IF res = <<>> THEN <<>>
    ELSE IF Head(res) = JsonNull THEN NonNullInOrder(Tail(res))
    ELSE <<Head(res)>> \o NonNullInOrder(Tail(res))

\* C16: in every reachable state stories is the complete filtered result of one
\* single call, the one that wrote last: every detail result of its first
\* initialLimit identifiers settled, the non-null ones in order and nothing
\* else. So no step but a publish changes stories, and a failing call writes
\* nothing.
C16_StoriesIsOneCompleteResult ==
    LET ids == FirstN(source.index, initialLimit)
    IN /\ Len(source.results) = Len(ids)
       /\ \A k \in DOMAIN ids : source.results[k] \in {Story(ids[k]), JsonNull}
       /\ stories = NonNullInOrder(source.results)

\* C16 witness: a list of two is on display while a later call, one of its
\* detail results in and one pending, is in flight and another has just failed.
C16_Witness ==
    /\ lastEvent.kind = "failed"
    /\ Len(stories) = 2
    /\ Len(calls) = 1
    /\ calls[1].pc = "all"
    /\ \E j, k \in DOMAIN calls[1].results :
          calls[1].results[j] = Pending /\ calls[1].results[k] \notin {Pending, JsonNull}

\* C17: at most one interval is live, one is live exactly when the component is
\* mounted with autoRefresh on, and a timer-initiated step is the start of a
\* fetchStories(true) call.
C17_TimerLifecycle ==
    /\ intervals \in {0, 1}
    /\ intervals = 1 <=> (phase = "mounted" /\ autoRefresh)
    /\ lastEvent.origin = "timer" => (lastEvent.kind = "start" /\ lastEvent.isRefresh)

\* C17 witness: autoRefresh has just been changed to on, and exactly one
\* interval is live.
C17_Witness ==
    /\ lastEvent.origin = "effect"
    /\ autoRefresh
    /\ intervals = 1

\* C18 as claimed: when the call made by the mount effect ends, the component
\* is in Content (loading false, error null, stories the fetched result) if it
\* published, and in Error (loading false, error set, stories still empty) if
\* it failed.
C18_FirstLoadEndsInContentOrError ==
    (Completed(lastEvent) /\ lastEvent.origin = "mount")
        => \/ /\ lastEvent.kind = "published"
              /\ ~loading /\ error = NoError
              /\ stories = NonNullInOrder(source.results)
           \/ /\ lastEvent.kind = "failed"
              /\ ~loading /\ error = ErrMsg
              /\ stories = <<>>

\* C19 as claimed: while a call is in flight, loading or refreshing is true.
C19_FlagsTrackInFlight ==
    calls # <<>> => (loading \/ refreshing)

\* C20 as claimed: with no call in flight, error is set exactly when the call
\* that ended last ended in failure.
C20_ErrorAgreesWithLastCompleted ==
    (calls = <<>> /\ Completed(lastEvent))
        => (error # NoError <=> lastEvent.kind = "failed")
====
